---- MODULE Spec2Model ----
(***************************************************************************)
(* Bill attribution engine of 251024_json:                                 *)
(*   src/out/post_label_bills.py  normalizer, keyword extractor, pattern   *)
(*                                builder, registry, scorer, resolver      *)
(*   src/out/process_bills.py     short-name extraction and the external   *)
(*                                disambiguator glue                       *)
(*                                                                         *)
(* A Python str is a sequence of characters.  An ASCII character is the    *)
(* one-character string of itself; a Hangul syllable is written as its     *)
(* romanised name ("beop" = U+BC95, "an" = U+C548, ...); a compatibility   *)
(* character that NFKC rewrites carries the prefix "fw".  Python's None    *)
(* is the value None below.  A confidence is kept in hundredths            *)
(* (0.45 = 45), which round(conf, 2) leaves as it is.                      *)
(***************************************************************************)
EXTENDS Integers, Sequences, FiniteSets, TLC

VARIABLES
    canon_list,         \* list(bill_map.keys()), in insertion order
    bill_map,           \* canonical title -> [raw_variants, keywords, patterns]
    speeches,           \* the utterance records handed to the resolver so far
    labeled,            \* assign_bills_to_speeches: the output list
    last_agenda_canon,  \* assign_bills_to_speeches: local of the same name
    last_by_speaker,    \* assign_bills_to_speeches: local dict of the same name
    processed_speeches, \* process_speeches: the output list
    inputs,             \* process_speeches: the records read from INPUT_FILE so far
    llm_calls,          \* process_speeches: the chat requests made, with their outcome
    log,                \* process_speeches: the logging calls made
    proc_pc,            \* process_speeches: "loop", or "raised" after an uncaught exception
    raw_title,          \* normalize_bill_title: the string it is first called on
    canon_titles        \* normalize_bill_title: its results, each call made on the last one

vars == <<canon_list, bill_map, speeches, labeled, last_agenda_canon,
          last_by_speaker, processed_speeches, inputs, llm_calls, log, proc_pc,
          raw_title, canon_titles>>

resolverVars == <<canon_list, bill_map, speeches, labeled, last_agenda_canon,
                  last_by_speaker>>
processVars == <<processed_speeches, inputs, llm_calls, log, proc_pc>>
normalizerVars == <<raw_title, canon_titles>>

-----------------------------------------------------------------------------
(* Python values *)

None == <<"<None>">>

\* truthiness of a str-or-None value: None and "" are false
Truthy(v) == v # None /\ v # <<>>

Max(a, b) == IF a >= b THEN a ELSE b

\* tuple comparison (h1,s1) > (h2,s2)
TupleGt(a, b) == a[1] > b[1] \/ (a[1] = b[1] /\ a[2] > b[2])

-----------------------------------------------------------------------------
(* Characters *)

Digits == {"0", "1", "2", "3", "4", "5", "6", "7", "8", "9"}
AsciiLower == {"a", "b", "c", "d", "x", "y"}
AsciiUpper == {"A", "B"}
Hangul == {"il", "bu", "gae", "jeong", "beop", "ryul", "an", "dae", "je", "chul",
           "ui", "won", "pyo", "bal", "wi", "jang", "beon", "ho", "so", "ja",
           "ryo", "geon", "chaek", "ey", "gwan", "han", "mit", "deung", "ryeon",
           "sa", "hang", "gwal", "chu", "jin", "bo", "go", "hoe", "geom", "to",
           "yo", "gi", "ta", "gyo", "gong"}

\* \s of the re module on str, and the characters str.strip() removes
IsSpace(c) == c \in {" ", "\n", "\t", "fw "}
\* \d of the re module on str: any Unicode decimal digit
IsDigit(c) == c \in Digits \cup {"fw1"}
\* [가-힣A-Za-z0-9]
IsWordChar(c) == c \in Hangul \cup AsciiLower \cup AsciiUpper \cup Digits

\* unicodedata.normalize("NFKC", .) character by character: the fullwidth
\* forms U+FF08, U+FF09, U+FF21, U+FF11 and the ideographic space U+3000
NfkcChar(c) ==
    CASE c = "fw(" -> "("
      [] c = "fw)" -> ")"
      [] c = "fwA" -> "A"
      [] c = "fw1" -> "1"
      [] c = "fw " -> " "
      [] OTHER -> c

\* re.IGNORECASE: simple case folding
FoldCase(c) ==
    CASE c = "A" -> "a"
      [] c = "B" -> "b"
      [] OTHER -> c

-----------------------------------------------------------------------------
(* str primitives *)

\* s.startswith(p, i-1)
MatchesAt(s, i, p) ==
    /\ i + Len(p) - 1 <= Len(s)
    /\ \A k \in 1..Len(p) : s[i + k - 1] = p[k]

\* p in s
Contains(s, p) == \E i \in 1..(Len(s) + 1) : MatchesAt(s, i, p)

\* s.replace(p, r) for a non-empty p: leftmost, non-overlapping occurrences
RECURSIVE ReplaceFrom(_, _, _, _)
ReplaceFrom(s, i, p, r) ==
    IF i > Len(s) THEN <<>>
    ELSE IF MatchesAt(s, i, p) THEN r \o ReplaceFrom(s, i + Len(p), p, r)
    ELSE <<s[i]>> \o ReplaceFrom(s, i + 1, p, r)

Replace(s, p, r) == ReplaceFrom(s, 1, p, r)

\* s.lstrip(), s.rstrip(), s.strip()
RECURSIVE LStrip(_)
LStrip(s) == IF s # <<>> /\ IsSpace(s[1]) THEN LStrip(Tail(s)) ELSE s

RECURSIVE RStrip(_)
RStrip(s) ==
    IF s # <<>> /\ IsSpace(s[Len(s)]) THEN RStrip(SubSeq(s, 1, Len(s) - 1)) ELSE s

Strip(s) == RStrip(LStrip(s))

\* re.sub(r"\s+", " ", s)
RECURSIVE CollapseSpaces(_)
CollapseSpaces(s) ==
    IF s = <<>> THEN <<>>
    ELSE IF IsSpace(s[1]) THEN <<" ">> \o CollapseSpaces(LStrip(s))
    ELSE <<s[1]>> \o CollapseSpaces(Tail(s))

\* re.split on runs of the characters in seps: the pieces, empty ones included
RECURSIVE SplitRuns(_, _, _)
SplitRuns(s, seps, cur) ==
    IF s = <<>> THEN <<cur>>
    ELSE IF s[1] \in seps
         THEN IF Len(s) > 1 /\ s[2] \in seps
              THEN SplitRuns(Tail(s), seps, cur)
              ELSE <<cur>> \o SplitRuns(Tail(s), seps, <<>>)
    ELSE SplitRuns(Tail(s), seps, Append(cur, s[1]))

\* s.split(sep) for a one-character sep
RECURSIVE SplitChar(_, _, _)
SplitChar(s, sep, cur) ==
    IF s = <<>> THEN <<cur>>
    ELSE IF s[1] = sep THEN <<cur>> \o SplitChar(Tail(s), sep, <<>>)
    ELSE SplitChar(Tail(s), sep, Append(cur, s[1]))

Range(xs) == {xs[i] : i \in 1..Len(xs)}

-----------------------------------------------------------------------------
(* post_label_bills.py: common utilities *)

normalize_text(s) ==
    IF ~Truthy(s) THEN <<>> ELSE [i \in 1..Len(s) |-> NfkcChar(s[i])]

clean_spaces(s) == Strip(CollapseSpaces(s))

-----------------------------------------------------------------------------
(* post_label_bills.py: the normalizer *)

\* RE_PREFIX_NUM = ^\s*\d+\s*[.\)]\s*  : the text left after the prefix, or s
\* itself when the pattern does not match at the start
RECURSIVE SkipDigits(_)
SkipDigits(s) == IF s # <<>> /\ IsDigit(s[1]) THEN SkipDigits(Tail(s)) ELSE s

StripPrefixNum(s) ==
    LET a == LStrip(s)
        b == SkipDigits(a)
        c == LStrip(b)
    IN  IF Len(b) < Len(a) /\ c # <<>> /\ c[1] \in {".", ")"}
        THEN LStrip(Tail(c))
        ELSE s

\* RE_PARENS = \([^()]*\)  : position of the ")" closing the "(" at i, or 0
\* when another "(" or the end of the string comes first
RECURSIVE ParenClose(_, _)
ParenClose(s, j) ==
    IF j > Len(s) THEN 0
    ELSE IF s[j] = ")" THEN j
    ELSE IF s[j] = "(" THEN 0
    ELSE ParenClose(s, j + 1)

\* RE_PARENS.sub("", s)
RECURSIVE StripParensFrom(_, _)
StripParensFrom(s, i) ==
    IF i > Len(s) THEN <<>>
    ELSE IF s[i] = "(" /\ ParenClose(s, i + 1) > 0
         THEN StripParensFrom(s, ParenClose(s, i + 1) + 1)
    ELSE <<s[i]>> \o StripParensFrom(s, i + 1)

StripParens(s) == StripParensFrom(s, 1)

\* RE_DANGLING_MARKS = [·•\-–—]+  ("middot" = U+00B7, "bullet" = U+2022,
\* "endash" = U+2013, "emdash" = U+2014)
DanglingMarks == {"middot", "bullet", "-", "endash", "emdash"}

\* RE_DANGLING_MARKS.sub(" ", s)
RECURSIVE ReplaceMarks(_)
ReplaceMarks(s) ==
    IF s = <<>> THEN <<>>
    ELSE IF s[1] \in DanglingMarks
         THEN IF Len(s) > 1 /\ s[2] \in DanglingMarks
              THEN ReplaceMarks(Tail(s))
              ELSE <<" ">> \o ReplaceMarks(Tail(s))
    ELSE <<s[1]>> \o ReplaceMarks(Tail(s))

STOP_PHRASES == <<
    <<"il", "bu", "gae", "jeong", "beop", "ryul", "an">>,
    <<"beop", "ryul", "an">>,
    <<"dae", "an">>,
    <<"jeong", "bu", " ", "je", "chul">>,
    <<"ui", "won", " ", "dae", "pyo", "bal", "ui">>,
    <<"dae", "pyo", "bal", "ui">>,
    <<"wi", "won", "jang", " ", "je", "chul">>,
    <<"ui", "an", "beon", "ho">>,
    <<"jeong", "bu", "je", "chul">>,
    <<"je", "chul">>,
    <<"so", "wi", "ja", "ryo">>,
    <<"an", "geon">> >>

\* for sp in STOP_PHRASES: s = s.replace(sp, "")
RECURSIVE RemoveStopPhrases(_, _)
RemoveStopPhrases(s, k) ==
    IF k > Len(STOP_PHRASES) THEN s
    ELSE RemoveStopPhrases(Replace(s, STOP_PHRASES[k], <<>>), k + 1)

\* lines 41-46: the title before the stop phrases are removed
StripTitle(raw) ==
    clean_spaces(ReplaceMarks(StripParens(StripPrefixNum(
        Replace(normalize_text(raw), <<"\n">>, <<" ">>)))))

normalize_bill_title(raw) ==
    IF ~Truthy(raw) THEN <<>>
    ELSE clean_spaces(RemoveStopPhrases(StripTitle(raw), 1))

\* split_raw_bills_field: re.split(r"[\n;]+", .), the non-blank pieces cleaned
\* line 89: [clean_spaces(p) for p in parts if clean_spaces(p)]
CleanParts(parts) ==
    SelectSeq([i \in 1..Len(parts) |-> clean_spaces(parts[i])], LAMBDA p : p # <<>>)

split_raw_bills_field(bills) ==
    IF ~Truthy(bills) THEN <<>>
    ELSE CleanParts(SplitRuns(normalize_text(bills), {"\n", ";"}, <<>>))

-----------------------------------------------------------------------------
(* post_label_bills.py: the keyword extractor *)

BILL_STOP_TOKENS == {
    <<"il", "bu", "gae", "jeong">>, <<"gae", "jeong">>, <<"beop", "ryul">>,
    <<"beop">>, <<"dae", "chaek">>, <<"ey">>, <<"gwan", "han">>, <<"mit">>,
    <<"ui">>, <<"deung">>, <<"gwan", "ryeon">>, <<"sa", "hang">>,
    <<"je", "jeong">>, <<"il", "gwal">>, <<"chu", "jin">>, <<"bo", "go">>,
    <<"ja", "ryo">>, <<"so", "wi">>, <<"wi", "won", "hoe">>, <<"wi", "won">>,
    <<"jeong", "bu">>, <<"je", "chul">>, <<"wi", "won", "jang">>,
    <<"dae", "pyo", "bal", "ui">>, <<"dae", "an">>, <<"ui", "an">>,
    <<"beon", "ho">>, <<"geom", "to">>, <<"an">>, <<"gae", "yo">>,
    <<"gi", "ta">> }

\* re.findall(r"[가-힣A-Za-z0-9]+", t): the maximal runs of word characters
RECURSIVE Tokens(_, _)
Tokens(t, cur) ==
    IF t = <<>> THEN IF cur = <<>> THEN <<>> ELSE <<cur>>
    ELSE IF IsWordChar(t[1]) THEN Tokens(Tail(t), Append(cur, t[1]))
    ELSE IF cur = <<>> THEN Tokens(Tail(t), <<>>)
    ELSE <<cur>> \o Tokens(Tail(t), <<>>)

\* number of occurrences of w in the list ws
Count(ws, w) == Cardinality({i \in 1..Len(ws) : ws[i] = w})

\* the keys of Counter(ws), in first-insertion order
RECURSIVE Distinct(_, _)
Distinct(ws, seen) ==
    IF ws = <<>> THEN <<>>
    ELSE IF ws[1] \in seen THEN Distinct(Tail(ws), seen)
    ELSE <<ws[1]>> \o Distinct(Tail(ws), seen \cup {ws[1]})

\* Counter(ws).most_common(k): by descending count, equal counts in
\* first-insertion order (sorted() is stable)
RECURSIVE MostCommon(_, _, _)
MostCommon(ws, keys, k) ==
    IF k = 0 \/ keys = <<>> THEN <<>>
    ELSE LET best == CHOOSE i \in 1..Len(keys) :
                        /\ \A j \in 1..Len(keys) : Count(ws, keys[j]) <= Count(ws, keys[i])
                        /\ \A j \in 1..(i - 1) : Count(ws, keys[j]) < Count(ws, keys[i])
             rest == [j \in 1..(Len(keys) - 1) |-> IF j < best THEN keys[j] ELSE keys[j + 1]]
         IN  <<keys[best]>> \o MostCommon(ws, rest, k - 1)

\* lines 63-70: the tokens of more than one character that are no stop token
KeptTokens(tokens) ==
    SelectSeq(tokens, LAMBDA tok : Len(tok) > 1 /\ tok \notin BILL_STOP_TOKENS)

\* lines 71-72: [w for w, _ in Counter(kept).most_common(topk)]
TopKeywords(kept, topk) == MostCommon(kept, Distinct(kept, {}), topk)

extract_keywords_from_bill(title, topk) ==
    TopKeywords(KeptTokens(Tokens(normalize_text(title), <<>>)), topk)

-----------------------------------------------------------------------------
(* post_label_bills.py: the pattern builder *)

\* A compiled pattern is the list of its atoms: <<"lit", c>> is the escaped
\* character c, <<"s*">> is \s*.  Every pattern is compiled with
\* re.IGNORECASE | re.DOTALL.
RECURSIVE JoinSpaceStar(_)
JoinSpaceStar(chars) ==
    IF chars = <<>> THEN <<>>
    ELSE IF Len(chars) = 1 THEN << <<"lit", chars[1]>> >>
    ELSE << <<"lit", chars[1]>>, <<"s*">> >> \o JoinSpaceStar(Tail(chars))

spaced_pat(word) == JoinSpaceStar(word)

\* [spaced_pat(w) for w in words]
Compiled(words) == [i \in 1..Len(words) |-> spaced_pat(words[i])]

build_keyword_patterns(words) == Compiled(SelectSeq(words, LAMBDA w : w # <<>>))

\* length of the run of whitespace of T that starts at position j
RECURSIVE SpaceRun(_, _)
SpaceRun(T, j) == IF j <= Len(T) /\ IsSpace(T[j]) THEN 1 + SpaceRun(T, j + 1) ELSE 0

\* re matching of the atoms pat[k..] at position j of T: the position after the
\* match, or 0 when there is none.  \s* is greedy and backtracks: the longest
\* run of whitespace that lets the rest match.
RECURSIVE PatMatchEnd(_, _, _, _)
PatMatchEnd(T, j, pat, k) ==
    IF k > Len(pat) THEN j
    ELSE IF pat[k][1] = "lit"
         THEN IF j <= Len(T) /\ FoldCase(T[j]) = FoldCase(pat[k][2])
              THEN PatMatchEnd(T, j + 1, pat, k + 1)
              ELSE 0
    ELSE LET ok == {w \in 0..SpaceRun(T, j) : PatMatchEnd(T, j + w, pat, k + 1) > 0}
         IN  IF ok = {} THEN 0
             ELSE PatMatchEnd(T, j + (CHOOSE w \in ok : \A v \in ok : v <= w), pat, k + 1)

\* len(list(pat.finditer(T))) from position pos on: leftmost matches, each
\* search resuming where the previous match ended
RECURSIVE CountMatches(_, _, _)
CountMatches(T, pat, pos) ==
    LET starts == {i \in pos..Len(T) : PatMatchEnd(T, i, pat, 1) > 0}
    IN  IF starts = {} THEN 0
        ELSE LET i == CHOOSE a \in starts : \A b \in starts : a <= b
             IN  1 + CountMatches(T, pat, PatMatchEnd(T, i, pat, 1))

-----------------------------------------------------------------------------
(* post_label_bills.py: the registry *)

\* lines 99-102: every piece of every record's bills field, in order
RECURSIVE BillVariants(_)
BillVariants(recs) ==
    IF recs = <<>> THEN <<>>
    ELSE split_raw_bills_field(recs[1].bills) \o BillVariants(Tail(recs))

\* lines 104-111: the keys of canonical_set, in insertion order
CanonicalKeys(variants) ==
    Distinct(SelectSeq([i \in 1..Len(variants) |-> normalize_bill_title(variants[i])],
                       LAMBDA c : c # <<>>), {})

\* EntryWithKeywords that files every piece under every title
EntryWithKeywords_allpieces(canon, variants, kws) ==
    [raw_variants |-> Range(variants),
     keywords |-> kws,
     patterns |-> build_keyword_patterns(<<canon>> \o kws)]

\* lines 113-123: the entry of one canonical title
EntryWithKeywords(canon, variants, kws) ==
    [raw_variants |-> {v \in Range(variants) : normalize_bill_title(v) = canon},
     keywords |-> kws,
     patterns |-> build_keyword_patterns(<<canon>> \o kws)]

BillEntry(canon, variants) ==
    EntryWithKeywords(canon, variants, extract_keywords_from_bill(canon, 8))

\* lines 113-124: the registry over the canonical keys
BillMapOver(keys, variants) == <<keys, [c \in Range(keys) |-> BillEntry(c, variants)]>>

\* lines 104-124: the registry of the collected pieces
RegistryOf(variants) == BillMapOver(CanonicalKeys(variants), variants)

\* collect_bills_and_keywords(speeches): <<list(bill_map.keys()), bill_map>>
collect_bills_and_keywords(recs) == RegistryOf(BillVariants(recs))

-----------------------------------------------------------------------------
(* post_label_bills.py: the scorer *)

\* the sum of the match counts of pats[k..]
RECURSIVE SoftHits(_, _, _)
SoftHits(T, pats, k) ==
    IF k > Len(pats) THEN 0
    ELSE CountMatches(T, pats[k], 1) + SoftHits(T, pats, k + 1)

\* score_text_for_bill whose whole-title search skips the first character
\* lines 133-147: <<hard, soft>> of the normalized text T against pats, the
\* whole-title search starting at position pos of T
HitsFrom(T, pats, pos) ==
    <<IF Len(pats) >= 1 THEN CountMatches(T, pats[1], pos) ELSE 0,
      SoftHits(T, pats, 2)>>

score_text_for_bill_skipfirst(text, bill_entry) ==
    IF ~Truthy(text) THEN <<0, 0>>
    ELSE HitsFrom(normalize_text(text), bill_entry.patterns, 2)

score_text_for_bill(text, bill_entry) ==
    IF ~Truthy(text) THEN <<0, 0>>
    ELSE HitsFrom(normalize_text(text), bill_entry.patterns, 1)

-----------------------------------------------------------------------------
(* The resolver's inputs *)

\* utterances per run of assign_bills_to_speeches
MaxSpeeches == 2

\* member_name values
Speakers == {<<"x">>, <<"y">>}

\* "1. ab 법률안(x 대표발의)", "ab", "cd ab", "cd", "1. ab(x 대표발의)", "대안"
MentionAbNumbered ==
    <<"1", ".", " ", "a", "b", " ", "beop", "ryul", "an",
      "(", "x", " ", "dae", "pyo", "bal", "ui", ")">>
MentionAb == <<"a", "b">>
MentionCdAb == <<"c", "d", " ", "a", "b">>
MentionCd == <<"c", "d">>
MentionAbSponsored ==
    <<"1", ".", " ", "a", "b", "(", "x", " ", "dae", "pyo", "bal", "ui", ")">>
MentionStopOnly == <<"dae", "an">>

\* bills field values: null, one mention, "ab;cd ab", "cd\nab"
Fields ==
    {None,
     MentionAbNumbered,
     MentionAb \o <<";">> \o MentionCdAb,
     MentionCd \o <<"\n">> \o MentionAb}

\* speech_text values: null, "xy", "cd", "cdcd", "Ａ\nb", "cd ab"
Texts ==
    {None,
     <<"x", "y">>,
     <<"c", "d">>,
     <<"c", "d", "c", "d">>,
     <<"fwA", "\n", "b">>,
     <<"c", "d", " ", "a", "b">>}

\* the transcripts a registry is collected from: sequences of bills fields
Corpora ==
    {<<>>,
     <<MentionAb \o <<";">> \o MentionCdAb, MentionStopOnly>>,
     <<MentionCdAb, MentionAbNumbered, MentionAb, MentionAbSponsored>>,
     <<MentionCd \o <<"\n">> \o MentionAb>>,
     <<MentionAb, MentionCd, MentionCdAb>>}

AsRecords(fields) == [i \in 1..Len(fields) |-> [bills |-> fields[i]]]

-----------------------------------------------------------------------------
(* Tables of the pure functions over the inputs above.  TLC evaluates a      *)
(* constant definition once, so the resolver looks a value up instead of     *)
(* computing it again in every state; outside the tables it computes.        *)

\* table[key] when the table has the key, and the computed value otherwise
Lookup(table, key, computed) == IF key \in DOMAIN table THEN table[key] ELSE computed

AllFields == Fields \cup UNION {Range(corpus) : corpus \in Corpora} \cup {<<>>}

SplitTable == [f \in AllFields |-> split_raw_bills_field(f)]

Split(bills) == Lookup(SplitTable, bills, split_raw_bills_field(bills))

AllMentions == UNION {Range(split_raw_bills_field(f)) : f \in AllFields}

NormalizeTable == [m \in AllMentions |-> normalize_bill_title(m)]

Normalize(raw) == Lookup(NormalizeTable, raw, normalize_bill_title(raw))

\* bill_map.values()
Entries(bm) == {bm[c] : c \in DOMAIN bm}

AllEntries ==
    UNION {Entries(collect_bills_and_keywords(AsRecords(corpus))[2]) : corpus \in Corpora}

ScoreTable ==
    [t \in (Texts \ {None}) \cup {<<>>}, e \in AllEntries |-> score_text_for_bill(t, e)]

Score(text, bill_entry) ==
    Lookup(ScoreTable, <<text, bill_entry>>, score_text_for_bill(text, bill_entry))

-----------------------------------------------------------------------------
(* post_label_bills.py: the resolver, assign_bills_to_speeches *)

\* f"{n}" for an int n >= 0
DigitChar(d) == <<"0", "1", "2", "3", "4", "5", "6", "7", "8", "9">>[d + 1]

RECURSIVE FormatInt(_)
FormatInt(n) ==
    IF n < 10 THEN <<DigitChar(n)>>
    ELSE FormatInt(n \div 10) \o <<DigitChar(n % 10)>>

\* UpdateBest with ">=" for ">": the last of the bills tied at the best score
UpdateBest_lastwins(c, hs, best) ==
    IF ~TupleGt(best[2], hs) THEN <<c, hs>> ELSE best

\* lines 157-158 and 190-191: <<best, best_score>> after bill c scored hs
UpdateBest(c, hs, best) ==
    IF TupleGt(hs, best[2]) THEN <<c, hs>> ELSE best

\* the loops of lines 155-158 and 188-191 over cands[k..], from best =
\* <<best, best_score>>
RECURSIVE BestByScore(_, _, _, _, _)
BestByScore(text, cands, bm, k, best) ==
    IF k > Len(cands) THEN best
    ELSE BestByScore(text, cands, bm, k + 1,
                     UpdateBest(cands[k], Score(text, bm[cands[k]]), best))

\* NoBest for a search that a (0, 0) score does not win
NoBest_zero == <<None, <<0, 0>> >>

\* lines 153-154 and 186: best, best_score = None, (-1, -1)
NoBest == <<None, <<-1, -1>> >>

\* TextConfidence without the 0.4 level: one keyword hit counts as two
TextConfidence_nolow(h, s) ==
    IF h > 0 THEN 90 ELSE IF s >= 1 THEN 60 ELSE 0

\* line 162
TextConfidence(h, s) ==
    IF h > 0 THEN 90 ELSE IF s >= 2 THEN 60 ELSE IF s = 1 THEN 40 ELSE 0

\* choose_by_score(text): <<best, conf, reason>>
\* lines 159-164: the result for best = <<best, best_score>>
ChoiceOf(best) ==
    IF best[1] = None THEN <<None, 0, <<"no-match">> >>
    ELSE <<best[1], TextConfidence(best[2][1], best[2][2]),
           <<"hard=">> \o FormatInt(best[2][1]) \o <<", soft=">>
               \o FormatInt(best[2][2])>>

choose_by_score(text, cl, bm) == ChoiceOf(BestByScore(text, cl, bm, 1, NoBest))

\* lines 172-175: the registry keys named by the utterance's own bills field
\* [normalize_bill_title(b) for b in raw_bills]
Canons(raw_bills) == [i \in 1..Len(raw_bills) |-> Normalize(raw_bills[i])]

FieldCandidates(rec, bm) ==
    SelectSeq(SelectSeq(Canons(Split(IF Truthy(rec.bills) THEN rec.bills ELSE <<>>)),
                        Truthy),
              LAMBDA c : c \in DOMAIN bm)

\* TextPick that carries no confidence over from choose_by_score
TextPick_unsure(t) ==
    IF Truthy(t[1])
    THEN [picked |-> t[1], conf |-> 0, why |-> <<"text-match(">> \o t[3] \o <<")">>]
    ELSE [picked |-> None, conf |-> 0, why |-> <<>>]

\* lines 177-182: the pick after the text scoring
\* lines 178-182: picked, conf, why for the result t of choose_by_score
TextPick(t) ==
    IF Truthy(t[1])
    THEN [picked |-> t[1], conf |-> t[2], why |-> <<"text-match(">> \o t[3] \o <<")">>]
    ELSE [picked |-> None, conf |-> 0, why |-> <<>>]

TextTier(text, cl, bm) == TextPick(choose_by_score(text, cl, bm))

\* CandidateConfidence with 0.4 for a candidate without any text hit
CandidateConfidence_low(cscore) ==
    IF cscore = <<0, 0>> THEN 40 ELSE IF cscore[1] > 0 THEN 90 ELSE 70

\* line 194: the confidence of a field candidate with text score cscore
CandidateConfidence(cscore) ==
    IF cscore = <<0, 0>> THEN 60 ELSE IF cscore[1] > 0 THEN 90 ELSE 70

\* lines 192-195: picked, conf, why for b = <<best_cand, best_cscore>>
CandidatePick(cur, b) ==
    IF Truthy(b[1])
    THEN [picked |-> b[1],
          conf |-> Max(cur.conf, CandidateConfidence(b[2])),
          why |-> <<"bills-field-candidate + text(">> \o FormatInt(b[2][1])
                  \o <<",">> \o FormatInt(b[2][2]) \o <<")">>]
    ELSE cur

\* FieldTier with "conf <= 0.6" for "conf < 0.6"
FieldTier_le(cur, text, candidates, bm) ==
    IF candidates # <<>> /\ cur.conf <= 60
    THEN CandidatePick(cur, BestByScore(text, candidates, bm, 1, NoBest))
    ELSE cur

\* lines 185-195: the cross-check against the field candidates
FieldTier(cur, text, candidates, bm) ==
    IF candidates # <<>> /\ cur.conf < 60
    THEN CandidatePick(cur, BestByScore(text, candidates, bm, 1, NoBest))
    ELSE cur

\* lines 198-199
AgendaTier(cur, lac) ==
    IF ~Truthy(cur.picked) /\ Truthy(lac)
    THEN [picked |-> lac, conf |-> 50, why |-> <<"agenda-flow">>]
    ELSE cur

\* lines 202-204
SpeakerTier(cur, spk, lbs) ==
    IF ~Truthy(cur.picked) /\ spk \in DOMAIN lbs
    THEN [picked |-> lbs[spk], conf |-> 45, why |-> <<"speaker-history">>]
    ELSE cur

\* lines 171-204: the attribution of one record under the running state
\* line 171: rec.get("speech_text") or ""
SpeechText(rec) == IF Truthy(rec.speech_text) THEN rec.speech_text ELSE <<>>

Attribution(rec, cl, bm, lac, lbs) ==
    SpeakerTier(AgendaTier(FieldTier(TextTier(SpeechText(rec), cl, bm),
                                     SpeechText(rec), FieldCandidates(rec, bm), bm),
                           lac),
                rec.member_name, lbs)

\* NextAgenda without the assignment of line 208
NextAgenda_kept(picked, lac) == lac

\* lines 207-209: the running state after a pick
NextAgenda(picked, lac) == IF Truthy(picked) THEN picked ELSE lac

\* NextBySpeaker that forgets the other speakers
NextBySpeaker_reset(picked, spk, lbs) ==
    IF Truthy(picked) THEN [k \in {spk} |-> picked] ELSE lbs

NextBySpeaker(picked, spk, lbs) ==
    IF Truthy(picked)
    THEN [k \in DOMAIN lbs \cup {spk} |-> IF k = spk THEN picked ELSE lbs[k]]
    ELSE lbs

\* Annotate that writes the text read at line 171 back into the copy
Annotate_textread(rec, a) ==
    [f \in DOMAIN rec \cup {"bill_assigned", "bill_confidence", "bill_reason"} |->
        CASE f = "bill_assigned" -> a.picked
          [] f = "bill_confidence" -> a.conf
          [] f = "bill_reason" -> a.why
          [] f = "speech_text" -> IF Truthy(rec[f]) THEN rec[f] ELSE <<>>
          [] OTHER -> rec[f]]

\* lines 211-214: dict(rec) with the three attribution fields set
Annotate(rec, a) ==
    [f \in DOMAIN rec \cup {"bill_assigned", "bill_confidence", "bill_reason"} |->
        CASE f = "bill_assigned" -> a.picked
          [] f = "bill_confidence" -> a.conf
          [] f = "bill_reason" -> a.why
          [] OTHER -> rec[f]]

-----------------------------------------------------------------------------
(* The resolver as a state machine: main() lines 234 and 242 *)

\* the registry of a transcript; the resolver has labelled nothing yet
Init ==
    /\ \E r \in {collect_bills_and_keywords(AsRecords(corpus)) : corpus \in Corpora} :
          canon_list = r[1] /\ bill_map = r[2]
    /\ speeches = <<>>
    /\ labeled = <<>>
    /\ last_agenda_canon = None
    /\ last_by_speaker = <<>>
    /\ processed_speeches = <<>>
    /\ inputs = <<>>
    /\ llm_calls = <<>>
    /\ log = <<>>
    /\ proc_pc = "loop"
    /\ raw_title = <<>>
    /\ canon_titles = <<>>

\* one iteration of the loop of lines 170-215 on the next record
LabelSpeech ==
    /\ Len(speeches) < MaxSpeeches
    /\ \E rec \in [speech_id : {Len(speeches) + 1}, member_name : Speakers,
                   bills : Fields, speech_text : Texts] :
          \E a \in {Attribution(rec, canon_list, bill_map, last_agenda_canon,
                                last_by_speaker)} :
             /\ speeches' = Append(speeches, rec)
             /\ labeled' = Append(labeled, Annotate(rec, a))
             /\ last_agenda_canon' = NextAgenda(a.picked, last_agenda_canon)
             /\ last_by_speaker' = NextBySpeaker(a.picked, rec.member_name,
                                                 last_by_speaker)
    /\ UNCHANGED <<canon_list, bill_map, processVars, normalizerVars>>

Next == LabelSpeech

Spec == Init /\ [][Next]_vars

-----------------------------------------------------------------------------
(* process_bills.py: helpers *)

\* the group (.*?) of ^\d+\.\s*(.*?)(?:\(|$) on rest, the text after "\d+\.\s*":
\* <<TRUE, group>>, or <<FALSE, _>> when a line break comes before "(" or the end
RECURSIVE LazyName(_, _)
LazyName(rest, acc) ==
    IF rest = <<>> THEN <<TRUE, acc>>
    ELSE IF rest[1] = "(" THEN <<TRUE, acc>>
    ELSE IF rest[1] = "\n" THEN <<Len(rest) = 1, acc>>
    ELSE LazyName(Tail(rest), Append(acc, rest[1]))

get_bill_name(bill_string) ==
    LET s == Strip(bill_string)
        d == SkipDigits(s)
        m == IF Len(d) < Len(s) /\ d # <<>> /\ d[1] = "."
             THEN LazyName(LStrip(Tail(d)), <<>>)
             ELSE <<FALSE, <<>> >>
    IN  IF m[1] THEN Strip(m[2]) ELSE s

\* line 124: [b.strip() for b in bill_string.split('\n') if b.strip()]
BillList(bill_string) ==
    LET parts == SplitChar(bill_string, "\n", <<>>)
        stripped == [i \in 1..Len(parts) |-> Strip(parts[i])]
    IN  SelectSeq(stripped, LAMBDA b : b # <<>>)

\* the outcome of the chat request: Failed stands for any exception raised
\* inside the try block; anything else is message.content
Failed == <<"<Exception>">>

\* line 85: the test that accepts original_bill for the answer chosen_bill
AcceptsAnswer(chosen_bill, original_bill) ==
    \/ chosen_bill = original_bill
    \/ Contains(original_bill, chosen_bill)
    \/ Contains(chosen_bill, original_bill)

\* lines 83-86: the first bill of the list that the test accepts, or 0
FirstAccepted(chosen_bill, bill_list) ==
    LET hits == {i \in 1..Len(bill_list) : AcceptsAnswer(chosen_bill, bill_list[i])}
    IN  IF hits = {} THEN 0 ELSE CHOOSE i \in hits : \A j \in hits : i <= j

\* find_most_relevant_bill that returns the answer itself once line 85
\* accepts it
find_most_relevant_bill_verbatim(speech_text, bill_list, response) ==
    IF response = Failed
    THEN [value |-> None, logs |-> <<"error: api call failed">>]
    ELSE IF FirstAccepted(Strip(response), bill_list) > 0
         THEN [value |-> Strip(response), logs |-> <<>>]
         ELSE [value |-> bill_list[1],
               logs |-> <<"warning: answer not in list, first bill substituted">>]

\* find_most_relevant_bill(speech_text, bill_list) when the chat request ends
\* in response: the value returned and the logging calls made
find_most_relevant_bill(speech_text, bill_list, response) ==
    IF response = Failed
    THEN [value |-> None, logs |-> <<"error: api call failed">>]
    ELSE LET chosen_bill == Strip(response)
             k == FirstAccepted(chosen_bill, bill_list)
         IN  IF k > 0
             THEN [value |-> bill_list[k], logs |-> <<>>]
             ELSE [value |-> bill_list[1],
                   logs |-> <<"warning: answer not in list, first bill substituted">>]

-----------------------------------------------------------------------------
(* process_speeches as a state machine *)

\* utterances per run of process_speeches
MaxInputs == 2

\* bills values of INPUT_FILE: null, "1. ab(x)", "1. ab(x)\n2. ab(y)",
\* "1. ab(x)\n2. cd(y)", "1. xab\nab", "1. ab\n2. cd(x)\n3. cd(y)",
\* " ", "1. ab(x)\nab", "ab(x)\nab(y)"
OneBill == <<"1", ".", " ", "a", "b", "(", "x", ")">>
SameNameBills ==
    <<"1", ".", " ", "a", "b", "(", "x", ")", "\n",
      "2", ".", " ", "a", "b", "(", "y", ")">>
TwoBills ==
    <<"1", ".", " ", "a", "b", "(", "x", ")", "\n",
      "2", ".", " ", "c", "d", "(", "y", ")">>
NestedBills == <<"1", ".", " ", "x", "a", "b", "\n", "a", "b">>
ThreeBills ==
    <<"1", ".", " ", "a", "b", "\n",
      "2", ".", " ", "c", "d", "(", "x", ")", "\n",
      "3", ".", " ", "c", "d", "(", "y", ")">>

BlankField == <<" ">>
MixedBills == <<"1", ".", " ", "a", "b", "(", "x", ")", "\n", "a", "b">>
UnnumberedBills == <<"a", "b", "(", "x", ")", "\n", "a", "b", "(", "y", ")">>

ProcFields ==
    {None, OneBill, SameNameBills, TwoBills, NestedBills, ThreeBills,
     BlankField, MixedBills, UnnumberedBills}

\* speech_text values of INPUT_FILE: null, "cd"
ProcTexts == {None, <<"c", "d">>}

\* answers of the chat model besides a literal copy of one of the bills:
\* "", "cd", "zz", "(y)"
OtherAnswers == {<<>>, <<"c", "d">>, <<"z", "z">>, <<"(", "y", ")">>}

\* the chat request either fails or answers with some text
Responses(bill_list) == {Failed} \cup Range(bill_list) \cup OtherAnswers

InitProcess ==
    /\ processed_speeches = <<>>
    /\ inputs = <<>>
    /\ llm_calls = <<>>
    /\ log = <<>>
    /\ proc_pc = "loop"
    /\ canon_list = <<>>
    /\ bill_map = <<>>
    /\ speeches = <<>>
    /\ labeled = <<>>
    /\ last_agenda_canon = None
    /\ last_by_speaker = <<>>
    /\ raw_title = <<>>
    /\ canon_titles = <<>>

\* the record the loop of line 116 reads next
NextInput(field, text) ==
    [speech_id |-> Len(inputs) + 1, bills |-> field, speech_text |-> text]

Logged(i, msgs) == [k \in 1..Len(msgs) |-> [speech |-> i, msg |-> msgs[k]]]

\* StoredSpeech without the test of line 150: the returned value always
\* replaces the field
StoredSpeech_always(speech, most_relevant_bill) ==
    [speech EXCEPT !.bills = most_relevant_bill]

\* lines 150-157: new_speech after the call returned most_relevant_bill
StoredSpeech(speech, most_relevant_bill) ==
    IF Truthy(most_relevant_bill)
    THEN [speech EXCEPT !.bills = most_relevant_bill]
    ELSE speech

\* line 124 on a null bills field: None has no split(); the AttributeError
\* is not caught and ends process_speeches before anything is saved
RaiseOnNullField ==
    /\ proc_pc = "loop"
    /\ Len(inputs) < MaxInputs
    /\ \E text \in ProcTexts :
          /\ inputs' = Append(inputs, NextInput(None, text))
          /\ proc_pc' = "raised"
    /\ UNCHANGED <<processed_speeches, llm_calls, log, resolverVars, normalizerVars>>

\* lines 129-131: at most one bill, the copy is appended as it is
KeepSingle ==
    /\ proc_pc = "loop"
    /\ Len(inputs) < MaxInputs
    /\ \E field \in ProcFields \ {None}, text \in ProcTexts :
          LET speech == NextInput(field, text)
          IN  /\ Len(BillList(field)) <= 1
              /\ inputs' = Append(inputs, speech)
              /\ processed_speeches' = Append(processed_speeches, speech)
    /\ UNCHANGED <<llm_calls, log, proc_pc, resolverVars, normalizerVars>>

\* lines 134-143: several bills, all of one name
KeepSameName ==
    /\ proc_pc = "loop"
    /\ Len(inputs) < MaxInputs
    /\ \E field \in ProcFields \ {None}, text \in ProcTexts :
          LET speech == NextInput(field, text)
              bill_list == BillList(field)
              bill_names == {get_bill_name(bill_list[k]) : k \in 1..Len(bill_list)}
          IN  /\ Len(bill_list) > 1
              /\ Cardinality(bill_names) = 1
              /\ inputs' = Append(inputs, speech)
              /\ processed_speeches' = Append(processed_speeches, speech)
              /\ log' = log \o Logged(speech.speech_id,
                            <<"info: several bills found", "info: names equal, original kept">>)
    /\ UNCHANGED <<llm_calls, proc_pc, resolverVars, normalizerVars>>

\* lines 134-157: several bills of different names, one chat request
Disambiguate ==
    /\ proc_pc = "loop"
    /\ Len(inputs) < MaxInputs
    /\ \E field \in ProcFields \ {None}, text \in ProcTexts :
          LET speech == NextInput(field, text)
              bill_list == BillList(field)
              bill_names == {get_bill_name(bill_list[k]) : k \in 1..Len(bill_list)}
          IN  /\ Len(bill_list) > 1
              /\ Cardinality(bill_names) # 1
              /\ \E response \in Responses(bill_list) :
                    LET found == find_most_relevant_bill(text, bill_list, response)
                        most_relevant_bill == found.value
                    IN  /\ inputs' = Append(inputs, speech)
                        /\ llm_calls' = Append(llm_calls,
                              [speech |-> speech.speech_id, speech_text |-> text,
                               bill_list |-> bill_list, response |-> response])
                        /\ processed_speeches' = Append(processed_speeches,
                              StoredSpeech(speech, most_relevant_bill))
                        /\ log' = log
                              \o Logged(speech.speech_id,
                                   <<"info: several bills found", "warning: names differ, asking">>)
                              \o Logged(speech.speech_id, found.logs)
                              \o Logged(speech.speech_id,
                                   IF Truthy(most_relevant_bill)
                                   THEN <<"info: answer stored">>
                                   ELSE <<"warning: analysis failed, original kept">>)
    /\ UNCHANGED <<proc_pc, resolverVars, normalizerVars>>

NextProcess == RaiseOnNullField \/ KeepSingle \/ KeepSameName \/ Disambiguate

SpecProcess == InitProcess /\ [][NextProcess]_vars

-----------------------------------------------------------------------------
(* normalize_bill_title called on its own results *)

\* longest title the normalizer is called on
MaxTitleLen == 4

\* number of calls made in a row, each on the result of the one before
MaxApplications == 2

\* an enumeration prefix, parentheses, the stop phrase "dae an", a letter and
\* a space
TitleChars == {"1", ".", "(", ")", "dae", "an", "a", " "}

Titles == UNION {[1..n -> TitleChars] : n \in 0..MaxTitleLen}

InitNormalize ==
    /\ raw_title \in Titles
    /\ canon_titles = <<>>
    /\ processed_speeches = <<>>
    /\ inputs = <<>>
    /\ llm_calls = <<>>
    /\ log = <<>>
    /\ proc_pc = "loop"
    /\ canon_list = <<>>
    /\ bill_map = <<>>
    /\ speeches = <<>>
    /\ labeled = <<>>
    /\ last_agenda_canon = None
    /\ last_by_speaker = <<>>

\* the argument of the next call: the title itself, then the last result
NextTitle == IF canon_titles = <<>> THEN raw_title ELSE canon_titles[Len(canon_titles)]

\* one call of normalize_bill_title
ApplyNormalizer ==
    /\ Len(canon_titles) < MaxApplications
    /\ canon_titles' = Append(canon_titles, normalize_bill_title(NextTitle))
    /\ UNCHANGED <<raw_title, resolverVars, processVars>>

NextNormalize == ApplyNormalizer

SpecNormalize == InitNormalize /\ [][NextNormalize]_vars

\* C16: normalize_bill_title is idempotent: for every string s, with nested
\* parentheses, repeated enumeration prefixes or stop phrases that appear
\* only once something else is removed, normalizing the normalized title
\* gives the normalized title again.
C16_NormalizerIdempotent ==
    Len(canon_titles) >= 2 => canon_titles[2] = canon_titles[1]

-----------------------------------------------------------------------------
(* Vocabulary of the properties of process_speeches *)

Calls == 1..Len(llm_calls)

\* the output record of the utterance that chat request k was made for
OutputOf(k) ==
    processed_speeches[CHOOSE i \in 1..Len(processed_speeches) :
                          processed_speeches[i].speech_id = llm_calls[k].speech]

\* the chat request for utterance k ended with the fallback warning of line 89
FallbackLogged(k) ==
    \E e \in Range(log) :
        /\ e.speech = llm_calls[k].speech
        /\ e.msg = "warning: answer not in list, first bill substituted"

\* the candidates that contain the answer or are contained in it
Related(answer, bill_list) ==
    {c \in Range(bill_list) : Contains(c, answer) \/ Contains(answer, c)}

\* C9 (as claimed): when the field splits into two mentions of different short
\* names and the answer is the second mention unchanged, the stored bills
\* field is exactly that second mention, for every pair of mentions.
C9_ExactAnswerHonoured ==
    \A k \in Calls :
        LET call == llm_calls[k]
        IN  (Len(call.bill_list) = 2 /\ call.response = call.bill_list[2])
            => OutputOf(k).bills = call.bill_list[2]

\* C10 (as claimed): an answer that equals no candidate selects candidate c
\* only if c is the single candidate containing it or contained in it;
\* related to several candidates or to none, the result is the first
\* candidate of the list, recorded as a fallback-default.
C10_InexactAnswer ==
    \A k \in Calls :
        LET call == llm_calls[k]
            answer == Strip(call.response)
            related == Related(answer, call.bill_list)
        IN  (call.response # Failed /\ answer \notin Range(call.bill_list)) =>
                IF Cardinality(related) = 1
                THEN OutputOf(k).bills \in related /\ ~FallbackLogged(k)
                ELSE OutputOf(k).bills = call.bill_list[1] /\ FallbackLogged(k)

\* the answer of chat request k is text that the test of line 85 accepts for
\* no candidate
MatchesNone(k) ==
    /\ llm_calls[k].response # Failed
    /\ FirstAccepted(Strip(llm_calls[k].response), llm_calls[k].bill_list) = 0

\* the input record that chat request k was made for
InputOf(k) == inputs[CHOOSE i \in 1..Len(inputs) : inputs[i].speech_id = llm_calls[k].speech]

\* the record process_speeches stores for the utterance of chat request k when
\* the answer is a literal copy of the first candidate
GenuineFirst(k) ==
    StoredSpeech(InputOf(k),
                 find_most_relevant_bill(llm_calls[k].speech_text, llm_calls[k].bill_list,
                                         llm_calls[k].bill_list[1]).value)

\* C11 (as claimed): when the answer matches none of the candidates, the
\* stored bills field is the first candidate and the output record shows that
\* the value is a fallback-default: it differs from the record stored when the
\* first candidate was genuinely selected.
C11_FallbackFlagged ==
    \A k \in Calls :
        MatchesNone(k) =>
            /\ OutputOf(k).bills = llm_calls[k].bill_list[1]
            /\ OutputOf(k) # GenuineFirst(k)

\* the input records that process_speeches finished
Processed == 1..Len(processed_speeches)

\* a chat request was made for input record i
Invoked(i) == \E k \in Calls : llm_calls[k].speech = inputs[i].speech_id

\* the mentions of input record i
MentionsOf(i) == BillList(inputs[i].bills)

\* the text of s before its first "("
RECURSIVE BeforeParen(_)
BeforeParen(s) ==
    IF s = <<>> \/ s[1] = "(" THEN <<>> ELSE <<s[1]>> \o BeforeParen(Tail(s))

\* s without a leading enumeration "N."
Unnumbered(s) ==
    IF Len(SkipDigits(s)) < Len(s) /\ SkipDigits(s) # <<>> /\ SkipDigits(s)[1] = "."
    THEN LStrip(Tail(SkipDigits(s)))
    ELSE s

\* the short name as the claim describes it: leading enumeration stripped,
\* trailing parenthetical stripped
ShortName(mention) == Strip(BeforeParen(Unnumbered(Strip(mention))))

\* C12 (as claimed): the Disambiguator is invoked for an utterance if and only
\* if its bill field splits into two or more mentions whose short names
\* (leading enumeration stripped, trailing parenthetical stripped) are not
\* all identical; otherwise the field is preserved verbatim.
C12_InvocationCondition ==
    \A i \in Processed :
        /\ Invoked(i) <=>
              /\ Len(MentionsOf(i)) >= 2
              /\ Cardinality({ShortName(m) : m \in Range(MentionsOf(i))}) # 1
        /\ ~Invoked(i) => processed_speeches[i] = inputs[i]

\* the chat request made for input record i
CallOf(i) == llm_calls[CHOOSE k \in Calls : llm_calls[k].speech = inputs[i].speech_id]

\* the record stored for input record i, from that record and the outcome of
\* its own chat request alone
OwnOutcome(i) ==
    IF Invoked(i)
    THEN StoredSpeech(inputs[i],
                      find_most_relevant_bill(inputs[i].speech_text, MentionsOf(i),
                                              CallOf(i).response).value)
    ELSE inputs[i]

\* C13: a failed Disambiguator call leaves its utterance with the original
\* field, and whatever calls failed, every utterance is stored as its own
\* field and its own call's outcome determine, one record per input utterance
\* in input order (for utterance sequences whose bills fields are strings:
\* the run has not stopped on a null field).
C13_FailureNonFatal ==
    /\ \A k \in Calls : llm_calls[k].response = Failed => OutputOf(k) = InputOf(k)
    /\ \A i \in Processed :
          /\ processed_speeches[i].speech_id = inputs[i].speech_id
          /\ processed_speeches[i] = OwnOutcome(i)
    /\ proc_pc = "loop" => Len(processed_speeches) = Len(inputs)

\* the call for the first utterance failed and the call for the second one
\* replaced its field by one mention
C13_Witness ==
    /\ Len(processed_speeches) = 2
    /\ Len(llm_calls) = 2
    /\ llm_calls[1].response = Failed
    /\ processed_speeches[1] = inputs[1]
    /\ Len(MentionsOf(1)) >= 2
    /\ llm_calls[2].response # Failed
    /\ processed_speeches[2].bills \in Range(MentionsOf(2))
    /\ processed_speeches[2].bills # inputs[2].bills

\* C14 (as claimed, for process_speeches): an utterance whose bills field is
\* null is treated as having an empty field: nothing is raised, the utterance
\* is stored as it is without a Disambiguator call, and every utterance read
\* has its record.
C14_MalformedInputNeverRaises ==
    /\ proc_pc # "raised"
    /\ Len(processed_speeches) = Len(inputs)
    /\ \A i \in Processed :
          ~Truthy(inputs[i].bills) => processed_speeches[i] = inputs[i] /\ ~Invoked(i)

-----------------------------------------------------------------------------
(* Vocabulary of the properties of the resolver *)

Records == 1..Len(labeled)

TextOf(r) == IF Truthy(r.speech_text) THEN r.speech_text ELSE <<>>

\* the (hard, soft) score of registry bill c against the text of record r
ScoreOf(r, c) == Score(TextOf(r), bill_map[c])

NoField(r) == ~Truthy(r.bills)

NoOverlap(r) == \A c \in Range(canon_list) : ScoreOf(r, c) = <<0, 0>>

ReasonIs(r, tag) == r.bill_reason # <<>> /\ r.bill_reason[1] = tag

IsTextMatch(r) == ReasonIs(r, "text-match(")
IsFieldCandidate(r) == ReasonIs(r, "bills-field-candidate + text(")
IsAgendaFlow(r) == r.bill_reason = <<"agenda-flow">>
IsSpeakerHistory(r) == r.bill_reason = <<"speaker-history">>

\* a is lexicographically >= b
TupleGe(a, b) == ~TupleGt(b, a)

\* position of canonical title c in the registry's iteration order
Position(c) == CHOOSE i \in 1..Len(canon_list) : canon_list[i] = c

\* the greatest score any registry bill reaches against record r's text
BestScoreOf(r) ==
    CHOOSE hs \in {ScoreOf(r, c) : c \in Range(canon_list)} :
        \A c \in Range(canon_list) : TupleGe(hs, ScoreOf(r, c))

\* C1 (as claimed): an utterance with no field and no text overlap that follows
\* an utterance assigned bill X with confidence >= 0.6 is output with
\* bill_assigned = X, bill_confidence = 0.5, bill_reason = "agenda-flow".
C1_AgendaCarry ==
    \A n \in Records :
        (/\ n > 1
         /\ NoField(labeled[n])
         /\ NoOverlap(labeled[n])
         /\ Truthy(labeled[n - 1].bill_assigned)
         /\ labeled[n - 1].bill_confidence >= 60)
        => /\ labeled[n].bill_assigned = labeled[n - 1].bill_assigned
           /\ labeled[n].bill_confidence = 50
           /\ labeled[n].bill_reason = <<"agenda-flow">>

\* C2 (as claimed): the first utterance, with an empty bill field and a text
\* that scores (0,0) against every registry bill, is output with
\* bill_assigned = null, bill_confidence = 0.0, bill_reason = "no-match".
C2_NoEvidence ==
    (/\ Len(labeled) >= 1
     /\ NoField(labeled[1])
     /\ NoOverlap(labeled[1]))
    => /\ labeled[1].bill_assigned = None
       /\ labeled[1].bill_confidence = 0
       /\ labeled[1].bill_reason = <<"no-match">>

\* the utterances among the first n with a non-null pick (by speaker spk)
Picks(n) == {i \in 1..n : Truthy(labeled[i].bill_assigned)}
PicksOf(n, spk) == {i \in Picks(n) : labeled[i].member_name = spk}
Latest(S) == CHOOSE i \in S : \A j \in S : j <= i

\* the running state that utterances 1..n leave behind, read off the output
AgendaAfter(n) ==
    IF Picks(n) = {} THEN None ELSE labeled[Latest(Picks(n))].bill_assigned
BySpeakerAfter(n) ==
    [spk \in {s \in Speakers : PicksOf(n, s) # {}} |->
        labeled[Latest(PicksOf(n, spk))].bill_assigned]

\* C3: after utterances 1..n, last_agenda_canon is the bill of the latest
\* utterance with a non-null pick (unset if none) and last_by_speaker[s] the
\* bill of the latest such utterance spoken by s; null picks change neither;
\* utterance n is attributed under the state left by utterances 1..n-1.
C3_ResolutionState ==
    /\ last_agenda_canon = AgendaAfter(Len(labeled))
    /\ last_by_speaker = BySpeakerAfter(Len(labeled))
    /\ \A n \in Records :
          labeled[n] = Annotate(speeches[n],
                                Attribution(speeches[n], canon_list, bill_map,
                                            AgendaAfter(n - 1), BySpeakerAfter(n - 1)))

\* two speakers have spoken, each with a pick, and the agenda bill has changed
C3_Witness ==
    /\ Len(labeled) = 2
    /\ DOMAIN last_by_speaker = Speakers
    /\ last_by_speaker[labeled[1].member_name] # last_by_speaker[labeled[2].member_name]
    /\ last_agenda_canon = labeled[2].bill_assigned

\* C4: a text-match attribution names the bill whose (hard, soft) score is
\* lexicographically greatest in the registry, and the first inserted among
\* the bills that reach that score.
C4_TextMatchSelection ==
    \A n \in Records :
        IsTextMatch(labeled[n]) =>
            LET r == labeled[n]
                b == r.bill_assigned
            IN  /\ b \in Range(canon_list)
                /\ \A c \in Range(canon_list) :
                      /\ TupleGe(ScoreOf(r, b), ScoreOf(r, c))
                      /\ Position(c) < Position(b) => TupleGt(ScoreOf(r, b), ScoreOf(r, c))

\* a text-match pick that won a tie at a non-zero score against a later bill
C4_Witness ==
    \E n \in Records :
        /\ IsTextMatch(labeled[n])
        /\ labeled[n].bill_confidence = 90
        /\ \E c \in Range(canon_list) :
              /\ c # labeled[n].bill_assigned
              /\ ScoreOf(labeled[n], c) = ScoreOf(labeled[n], labeled[n].bill_assigned)

\* C5: a text-match attribution has confidence 0.9 when the best score has
\* hard > 0, 0.6 when hard = 0 and soft >= 2, 0.4 when hard = 0 and soft = 1;
\* agenda-flow always has 0.5 and speaker-history 0.45.
C5_TextMatchConfidence ==
    \A n \in Records :
        /\ IsTextMatch(labeled[n]) =>
              \E hs \in {BestScoreOf(labeled[n])} :
                  /\ hs[1] > 0 => labeled[n].bill_confidence = 90
                  /\ (hs[1] = 0 /\ hs[2] >= 2) => labeled[n].bill_confidence = 60
                  /\ (hs[1] = 0 /\ hs[2] = 1) => labeled[n].bill_confidence = 40
        /\ IsAgendaFlow(labeled[n]) => labeled[n].bill_confidence = 50
        /\ IsSpeakerHistory(labeled[n]) => labeled[n].bill_confidence = 45

\* one run with a text-match on keyword hits alone (0.6) and one on a whole
\* title (0.9)
C5_Witness ==
    \E i, j \in Records :
        /\ IsTextMatch(labeled[i])
        /\ BestScoreOf(labeled[i])[1] = 0
        /\ BestScoreOf(labeled[i])[2] >= 2
        /\ labeled[i].bill_confidence = 60
        /\ IsTextMatch(labeled[j])
        /\ BestScoreOf(labeled[j])[1] > 0
        /\ labeled[j].bill_confidence = 90

\* the registry keys named by record n's own bills field, in field order
CandidatesOf(n) == FieldCandidates(speeches[n], bill_map)

\* the pick and confidence of the text scoring alone for record n
Tier1Of(n) == TextTier(TextOf(speeches[n]), canon_list, bill_map)

\* C6: with a field candidate in the registry and tier-1 confidence below 0.6,
\* the pick is the candidate with the greatest (hard, soft) score (the first on
\* ties), the reason is "bills-field-candidate + text(hard,soft)" and the
\* confidence 0.6 for (0,0), 0.9 for hard > 0, else 0.7; with tier-1 confidence
\* >= 0.6 the tier-1 pick is kept, among the candidates or not.
C6_FieldCandidate ==
    \A n \in Records :
        LET r == labeled[n]
            cands == CandidatesOf(n)
            t1 == Tier1Of(n)
        IN  cands # <<>> =>
                IF t1.conf < 60
                THEN \E i \in 1..Len(cands) :
                        LET hs == ScoreOf(r, cands[i])
                        IN  /\ \A j \in 1..Len(cands) :
                                  /\ TupleGe(hs, ScoreOf(r, cands[j]))
                                  /\ j < i => TupleGt(hs, ScoreOf(r, cands[j]))
                            /\ r.bill_assigned = cands[i]
                            /\ r.bill_reason =
                                  <<"bills-field-candidate + text(">> \o FormatInt(hs[1])
                                  \o <<",">> \o FormatInt(hs[2]) \o <<")">>
                            /\ r.bill_confidence =
                                  IF hs = <<0, 0>> THEN 60 ELSE IF hs[1] > 0 THEN 90 ELSE 70
                ELSE /\ r.bill_assigned = t1.picked
                     /\ r.bill_confidence = t1.conf
                     /\ IsTextMatch(r)

\* one run in which the cross-check picked the second candidate on its score,
\* and a tier-1 pick outside the candidates was kept
C6_Witness ==
    /\ \E n \in Records :
          /\ Len(CandidatesOf(n)) = 2
          /\ IsFieldCandidate(labeled[n])
          /\ labeled[n].bill_assigned = CandidatesOf(n)[2]
          /\ labeled[n].bill_confidence = 70
    /\ \E n \in Records :
          /\ CandidatesOf(n) # <<>>
          /\ IsTextMatch(labeled[n])
          /\ labeled[n].bill_assigned \notin Range(CandidatesOf(n))

\* the evidence tier that produced record r: 4 text-match (with evidence, i.e.
\* a positive confidence), 3 field-candidate, 2 agenda-flow, 1 speaker-history
TierRank(r) ==
    CASE IsTextMatch(r) /\ r.bill_confidence > 0 -> 4
      [] IsFieldCandidate(r) -> 3
      [] IsAgendaFlow(r) -> 2
      [] IsSpeakerHistory(r) -> 1
      [] OTHER -> 0

\* C7 (as claimed): an attribution produced by a higher tier never carries a
\* lower confidence than one produced by a lower tier (text-match >
\* field-candidate > agenda-flow > speaker-history).  Text-match records
\* without evidence (confidence 0.0) are left out, so that a violation does not
\* rest on them.
C7_TierOrder ==
    \A i, j \in Records :
        (TierRank(labeled[j]) > 0 /\ TierRank(labeled[i]) > TierRank(labeled[j]))
        => labeled[i].bill_confidence >= labeled[j].bill_confidence

\* C7 (amended): the order holds from a text-match with hard > 0 downwards: a
\* text-match whose whole-title pattern hit is never below a field-candidate,
\* agenda-flow or speaker-history attribution, and a field-candidate
\* attribution is at least 0.6, above agenda-flow (0.5) and speaker-history
\* (0.45).
C7_TierOrderAmended ==
    \A i, j \in Records :
        LET ri == labeled[i]
            rj == labeled[j]
        IN  /\ IsFieldCandidate(ri) => ri.bill_confidence >= 60
            /\ IsAgendaFlow(ri) => ri.bill_confidence = 50
            /\ IsSpeakerHistory(ri) => ri.bill_confidence = 45
            /\ (/\ IsTextMatch(ri)
                /\ ScoreOf(ri, ri.bill_assigned)[1] > 0
                /\ TierRank(rj) \in 1..3)
               => ri.bill_confidence >= rj.bill_confidence
            /\ (IsFieldCandidate(ri) /\ TierRank(rj) \in 1..2)
               => ri.bill_confidence >= rj.bill_confidence

\* a whole-title text-match next to a field-candidate attribution backed by a
\* keyword hit
C7_Witness ==
    \E i, j \in Records :
        /\ IsTextMatch(labeled[i])
        /\ ScoreOf(labeled[i], labeled[i].bill_assigned)[1] > 0
        /\ IsFieldCandidate(labeled[j])
        /\ labeled[j].bill_confidence = 70

\* C8 (as claimed): with an empty bill field and a text that contains the
\* canonical title of registry bill B verbatim, B has hard_hits >= 1 and the
\* output is bill_assigned = B, confidence 0.9, reason text-match..., whatever
\* else the registry holds.
C8_StrongTextMatch ==
    \A n \in Records : \A B \in Range(canon_list) :
        LET r == labeled[n]
        IN  (NoField(r) /\ Contains(TextOf(r), B)) =>
                /\ ScoreOf(r, B)[1] >= 1
                /\ r.bill_assigned = B
                /\ r.bill_confidence = 90
                /\ IsTextMatch(r)

\* B's score beats every bill inserted before it and is not beaten by any
\* bill inserted after it
WinsTextScoring(r, B) ==
    \A c \in Range(canon_list) \ {B} :
        /\ TupleGe(ScoreOf(r, B), ScoreOf(r, c))
        /\ Position(c) < Position(B) => TupleGt(ScoreOf(r, B), ScoreOf(r, c))

\* C8 (amended): ... B has hard_hits >= 1, the output has confidence 0.9 and a
\* text-match reason, the assigned bill scores at least as high as B, and it
\* is B whenever B wins the text scoring.
C8_StrongTextMatchAmended ==
    \A n \in Records : \A B \in Range(canon_list) :
        LET r == labeled[n]
        IN  (NoField(r) /\ Contains(TextOf(r), B)) =>
                /\ ScoreOf(r, B)[1] >= 1
                /\ r.bill_confidence = 90
                /\ IsTextMatch(r)
                /\ r.bill_assigned \in Range(canon_list)
                /\ TupleGe(ScoreOf(r, r.bill_assigned), ScoreOf(r, B))
                /\ WinsTextScoring(r, B) => r.bill_assigned = B

\* a text with the title of the second of three registry bills, assigned to it
C8_Witness ==
    \E n \in Records : \E B \in Range(canon_list) :
        /\ Len(canon_list) = 3
        /\ Position(B) > 1
        /\ NoField(labeled[n])
        /\ Contains(TextOf(labeled[n]), B)
        /\ labeled[n].bill_assigned = B

\* the fields assign_bills_to_speeches adds
AttributionFields == {"bill_assigned", "bill_confidence", "bill_reason"}

\* one output record per utterance read, in order, each with every field of
\* its utterance unchanged plus the three attribution fields
OutputShape ==
    /\ Len(labeled) = Len(speeches)
    /\ \A n \in Records :
          /\ DOMAIN labeled[n] = DOMAIN speeches[n] \cup AttributionFields
          /\ AttributionFields \cap DOMAIN speeches[n] = {}
          /\ \A f \in DOMAIN speeches[n] : labeled[n][f] = speeches[n][f]

\* a step changes neither the registry nor the utterances already read
InputFrame ==
    /\ canon_list' = canon_list
    /\ bill_map' = bill_map
    /\ Len(speeches') >= Len(speeches)
    /\ \A n \in 1..Len(speeches) : speeches'[n] = speeches[n]

\* C15: assign_bills_to_speeches returns one record per input utterance in
\* input order, record i holding every original field of utterance i
\* unchanged plus bill_assigned, bill_confidence and bill_reason; the input
\* records and the registry are not modified.
C15_OutputShapeAndFrame == []OutputShape /\ [][InputFrame]_vars

\* two utterances labelled, the second with a null text and a bill named by
\* its field
C15_Witness ==
    /\ Len(labeled) = 2
    /\ labeled[1].speech_id = 1
    /\ labeled[2].speech_id = 2
    /\ labeled[2].speech_text = None
    /\ Truthy(labeled[2].bills)
    /\ Truthy(labeled[2].bill_assigned)

\* the raw strings the registry keeps
StoredVariants == UNION {bill_map[c].raw_variants : c \in DOMAIN bill_map}

\* the pieces of the bills fields of a transcript
Pieces(corpus) == UNION {Range(Split(corpus[i])) : i \in 1..Len(corpus)}

\* v is w with an enumeration prefix in front and one parenthetical behind
SponsoredVariantOf(v, w) ==
    \E i \in 1..Len(v), j \in 1..Len(v) :
        /\ i < j
        /\ StripPrefixNum(SubSeq(v, 1, i) \o <<"a">>) = <<"a">>
        /\ SubSeq(v, i + 1, j - 1) = w
        /\ v[j] = "("
        /\ ParenClose(v, j + 1) = Len(v)

\* the registry of collect_bills_and_keywords has exactly one entry per
\* distinct non-empty canonical title of the pieces it was collected from,
\* every raw variant kept under a key normalizes to that key, and two pieces
\* that differ only by a leading enumeration prefix and a trailing sponsor
\* parenthetical are kept together under one key.
RegistryDedup ==
    /\ Range(canon_list) = DOMAIN bill_map
    /\ Cardinality(DOMAIN bill_map) = Len(canon_list)
    /\ \A c \in DOMAIN bill_map :
          /\ c # <<>>
          /\ bill_map[c].raw_variants # {}
          /\ \A v \in bill_map[c].raw_variants : Normalize(v) = c
    /\ \E corpus \in Corpora :
          StoredVariants = {v \in Pieces(corpus) : Normalize(v) # <<>>}
    /\ \A v \in StoredVariants, w \in StoredVariants :
          SponsoredVariantOf(v, w) =>
             /\ Normalize(v) = Normalize(w)
             /\ {v, w} \subseteq bill_map[Normalize(w)].raw_variants

C18_SpeakerHistoryUnreachable ==
    /\ DOMAIN last_by_speaker # {} => Truthy(last_agenda_canon)
    /\ \A n \in Records :
          ~IsSpeakerHistory(labeled[n]) /\ labeled[n].bill_confidence # 45

\* a speaker with an entry in last_by_speaker speaks again with no field and
\* no text, the agenda being set: the record is not labelled by
\* speaker-history
C18_Witness ==
    /\ Len(labeled) = 2
    /\ Truthy(labeled[1].bill_assigned)
    /\ labeled[2].member_name = labeled[1].member_name
    /\ labeled[2].member_name \in DOMAIN last_by_speaker
    /\ Truthy(last_agenda_canon)
    /\ NoField(labeled[2])
    /\ labeled[2].speech_text = None
    /\ ~IsSpeakerHistory(labeled[2])

\* C19: the cross-check against the field candidates runs only when the text
\* confidence is below 0.6, so every record with reason bills-field-candidate
\* reports hard = 0 and has confidence 0.6 or 0.7; the 0.9 branch of the
\* cross-check is never taken.
C19_FieldCandidateRange ==
    \A n \in Records :
        IsFieldCandidate(labeled[n]) =>
            /\ labeled[n].bill_reason[2] = "0"
            /\ ScoreOf(labeled[n], labeled[n].bill_assigned)[1] = 0
            /\ labeled[n].bill_confidence \in {60, 70}

\* one field candidate without any text hit (0.6) and one with a keyword
\* hit (0.7)
C19_Witness ==
    /\ Len(labeled) = 2
    /\ IsFieldCandidate(labeled[1])
    /\ labeled[1].bill_confidence = 60
    /\ IsFieldCandidate(labeled[2])
    /\ labeled[2].bill_confidence = 70
    /\ labeled[2].bill_reason[4] # "0"

\* the non-empty canonical titles of the mentions of r's bills field
FieldCanons(r) ==
    {Normalize(m) : m \in Range(Split(IF Truthy(r.bills) THEN r.bills ELSE <<>>))}
        \ {<<>>}

\* r's field names a bill, and the registry has every bill r's field names,
\* as it does when it was collected from a sequence that r is part of
FieldBearing(r) == FieldCanons(r) # {} /\ FieldCanons(r) \subseteq DOMAIN bill_map

\* C20: with the registry collected from the same utterances, every utterance
\* whose bills field has a mention with a non-empty canonical title is output
\* with a bill_assigned that is a registry key and a bill_confidence of at
\* least 0.6, whatever its text and the utterances before it.
C20_FieldBearingAttributed ==
    \A n \in Records :
        FieldBearing(labeled[n]) =>
            /\ labeled[n].bill_assigned # None
            /\ labeled[n].bill_assigned \in Range(canon_list)
            /\ labeled[n].bill_confidence >= 60

\* two field-bearing utterances: the text decides the first (0.9), the
\* second has no text and its field decides (0.6)
C20_Witness ==
    /\ Len(labeled) = 2
    /\ FieldBearing(labeled[1])
    /\ IsTextMatch(labeled[1])
    /\ labeled[1].bill_confidence = 90
    /\ FieldBearing(labeled[2])
    /\ labeled[2].speech_text = None
    /\ IsFieldCandidate(labeled[2])
    /\ labeled[2].bill_confidence = 60
    /\ labeled[2].bill_assigned \in FieldCanons(labeled[2])

-----------------------------------------------------------------------------
(* process_speeches: what a disambiguation can store *)

\* output record i is input record i, but for its bills field, which is the
\* original field or one of the mentions that field splits into
ClosedOverOwnMentions ==
    \A i \in Processed :
        /\ DOMAIN processed_speeches[i] = DOMAIN inputs[i]
        /\ \A f \in DOMAIN inputs[i] \ {"bills"} :
              processed_speeches[i][f] = inputs[i][f]
        /\ \/ processed_speeches[i].bills = inputs[i].bills
           \/ processed_speeches[i].bills \in Range(MentionsOf(i))

\* the chat requests were made for utterances read, each for a later
\* utterance than the one before: at most one per utterance, in input order
CallsInInputOrder ==
    /\ \A k \in Calls : llm_calls[k].speech \in 1..Len(inputs)
    /\ \A j \in Calls, k \in Calls :
          j < k => llm_calls[j].speech < llm_calls[k].speech

\* a step makes at most one chat request, for the utterance it reads, and
\* leaves the earlier requests and the earlier output records as they are
OneCallAtATime ==
    /\ Len(llm_calls') <= Len(llm_calls) + 1
    /\ \A k \in Calls : llm_calls'[k] = llm_calls[k]
    /\ Len(llm_calls') > Len(llm_calls) =>
          llm_calls'[Len(llm_calls')].speech = Len(inputs')
    /\ Len(processed_speeches') >= Len(processed_speeches)
    /\ \A i \in Processed : processed_speeches'[i] = processed_speeches[i]

\* C21: each output utterance's bills field is its original field verbatim
\* or exactly one of the mentions that same field splits into, never the
\* Disambiguator's raw text nor a mention of another utterance; the
\* Disambiguator is called at most once per utterance, without retry, and the
\* calls are made in input order, one at a time.
C21_ClosedOverOwnMentions ==
    /\ [](ClosedOverOwnMentions /\ CallsInInputOrder)
    /\ [][OneCallAtATime]_vars

\* two utterances with different fields, one call each: an answer that is
\* no mention ("zz") stores the first mention, an answer that is part of a
\* mention ("(y)") stores that whole mention, and neither stored field is a
\* mention of the other utterance
C21_Witness ==
    /\ Len(processed_speeches) = 2
    /\ Len(llm_calls) = 2
    /\ llm_calls[1].speech = 1
    /\ llm_calls[2].speech = 2
    /\ llm_calls[1].response = <<"z", "z">>
    /\ llm_calls[2].response = <<"(", "y", ")">>
    /\ processed_speeches[1].bills = MentionsOf(1)[1]
    /\ processed_speeches[2].bills \in Range(MentionsOf(2))
    /\ processed_speeches[2].bills # MentionsOf(2)[1]
    /\ processed_speeches[1].bills \notin Range(MentionsOf(2))
    /\ processed_speeches[2].bills \notin Range(MentionsOf(1))

====
